---- MODULE Spec2Model ----
(***************************************************************************)
(* A model of generator.py: the vCard formatter generate_contact_vcard,    *)
(* the image emitter generate_qr_code, the interactive prompt               *)
(* get_user_input_interactive and the dispatcher main.                      *)
(*                                                                         *)
(* A Python str is a sequence of one-character strings; None is the        *)
(* sentinel NoneVal, which is no str because "None" is not one character.  *)
(***************************************************************************)
EXTENDS Integers, Sequences, FiniteSets, TLC

VARIABLES
    args,           \* argparse's Namespace (generator.py:142)
    pc,             \* where the process is
    depth,          \* live frames of get_user_input_interactive
    typed,          \* the raw lines read by the frame that took choice 1, 2 or 3
    ret,            \* the value being returned up the frames of the prompt
    user_data,      \* main's local user_data (generator.py:167)
    contact_vcard,  \* main's local contact_vcard (generator.py:156, 173)
    calls,          \* the calls main made to generate_qr_code, in order
    gq,             \* generate_qr_code's frame: data, output_path, img
    clock,          \* what datetime.now() returned (generator.py:47)
    out,            \* standard output, one entry per print() or input() prompt
    written,        \* the files img.save() wrote, in order
    events,         \* what generate_qr_code did, in order
    exit_status,    \* <<>> while running, <<n>> once the process has ended
    unit            \* a direct call of generate_contact_vcard, as the tests make

vars == <<args, pc, depth, typed, ret, user_data, contact_vcard, calls, gq, clock,
          out, written, events, exit_status, unit>>

mainVars == <<args, pc, depth, typed, ret, user_data, contact_vcard, calls, gq,
              clock, out, written, events, exit_status>>

----------------------------------------------------------------------------
(* Bounds *)

\* invalid menu choices (recursive re-prompts) one run may make
MaxDepth == 2

\* pieces a field handed to generate_contact_vcard directly is made of
MaxPieces == 1

----------------------------------------------------------------------------
(* Python values *)

NoneVal == <<"None">>

\* bool(x) of a str or None: `if url:`, `not args.url`, all([...])
Truthy(x) == x /= NoneVal /\ x /= <<>>

\* str.strip() with no argument strips these from both ends
Whitespace == {" ", "\t", "\n", "\r"}

RECURSIVE LStrip(_)
LStrip(s) ==
    IF s = <<>> THEN s
    ELSE IF Head(s) \in Whitespace THEN LStrip(Tail(s)) ELSE s

RECURSIVE RStrip(_)
RStrip(s) ==
    IF s = <<>> THEN s
    ELSE IF s[Len(s)] \in Whitespace THEN RStrip(SubSeq(s, 1, Len(s) - 1)) ELSE s

Strip(s) == RStrip(LStrip(s))

\* dict.get(key, default)
DictGet(d, key, default) == IF key \in DOMAIN d THEN d[key] ELSE default

----------------------------------------------------------------------------
(* The program's string literals *)

\* generator.py:25-27  f"""BEGIN:VCARD\nVERSION:3.0\nFN:
VcardHead ==
    <<"B", "E", "G", "I", "N", ":", "V", "C", "A", "R", "D", "\n", "V", "E", "R", "S",
      "I", "O", "N", ":", "3", ".", "0", "\n", "F", "N", ":">>

\* generator.py:27-28  the text between {name} and {phone}
VcardTel ==
    <<"\n", "T", "E", "L", ":">>

\* generator.py:28-29  the text between {phone} and {email}
VcardEmail ==
    <<"\n", "E", "M", "A", "I", "L", ":">>

\* generator.py:32  f"\nURL:{url}"
VcardUrl ==
    <<"\n", "U", "R", "L", ":">>

\* generator.py:34  "\nEND:VCARD"
VcardEnd ==
    <<"\n", "E", "N", "D", ":", "V", "C", "A", "R", "D">>

\* generator.py:48  f"qrcode_{timestamp}.png", the text before the timestamp
AutoPrefix ==
    <<"q", "r", "c", "o", "d", "e", "_">>

\* generator.py:48  f"qrcode_{timestamp}.png", the text after the timestamp
AutoSuffix ==
    <<".", "p", "n", "g">>

\* generator.py:61  f"QR code saved to {output_path}"
SavedPrefix ==
    <<"Q", "R", " ", "c", "o", "d", "e", " ", "s", "a", "v", "e", "d", " ", "t", "o",
      " ">>

\* generator.py:162, 179  "contact_qrcode.png"
ContactDefaultPath ==
    <<"c", "o", "n", "t", "a", "c", "t", "_", "q", "r", "c", "o", "d", "e", ".", "p",
      "n", "g">>

\* generator.py:71
MenuTitle ==
    <<"\n", "=", "=", "=", " ", "Q", "R", " ", "C", "o", "d", "e", " ", "G", "e", "n",
      "e", "r", "a", "t", "o", "r", " ", "=", "=", "=">>

\* generator.py:72
MenuChoose ==
    <<"C", "h", "o", "o", "s", "e", " ", "a", "n", " ", "o", "p", "t", "i", "o", "n",
      ":">>

\* generator.py:73
MenuItem1 ==
    <<"1", ".", " ", "G", "e", "n", "e", "r", "a", "t", "e", " ", "W", "e", "b", "s",
      "i", "t", "e", " ", "Q", "R", " ", "C", "o", "d", "e">>

\* generator.py:74
MenuItem2 ==
    <<"2", ".", " ", "G", "e", "n", "e", "r", "a", "t", "e", " ", "C", "o", "n", "t",
      "a", "c", "t", " ", "Q", "R", " ", "C", "o", "d", "e">>

\* generator.py:75
MenuItem3 ==
    <<"3", ".", " ", "E", "x", "i", "t">>

\* generator.py:77
PromptChoice ==
    <<"\n", "E", "n", "t", "e", "r", " ", "y", "o", "u", "r", " ", "c", "h", "o", "i",
      "c", "e", " ", "(", "1", "-", "3", ")", ":", " ">>

\* generator.py:80
PromptUrl ==
    <<"E", "n", "t", "e", "r", " ", "w", "e", "b", "s", "i", "t", "e", " ", "U", "R",
      "L", ":", " ">>

\* generator.py:84
ContactHeader ==
    <<"\n", "-", "-", "-", " ", "E", "n", "t", "e", "r", " ", "Y", "o", "u", "r", " ",
      "C", "o", "n", "t", "a", "c", "t", " ", "I", "n", "f", "o", "r", "m", "a", "t",
      "i", "o", "n", " ", "-", "-", "-">>

\* generator.py:85
PromptName ==
    <<"F", "u", "l", "l", " ", "N", "a", "m", "e", ":", " ">>

\* generator.py:86
PromptPhone ==
    <<"P", "h", "o", "n", "e", " ", "N", "u", "m", "b", "e", "r", ":", " ">>

\* generator.py:87
PromptEmail ==
    <<"E", "m", "a", "i", "l", " ", "A", "d", "d", "r", "e", "s", "s", ":", " ">>

\* generator.py:88
PromptWebsite ==
    <<"W", "e", "b", "s", "i", "t", "e", " ", "U", "R", "L", " ", "(", "o", "p", "t",
      "i", "o", "n", "a", "l", ",", " ", "p", "r", "e", "s", "s", " ", "E", "n", "t",
      "e", "r", " ", "t", "o", " ", "s", "k", "i", "p", ")", ":", " ">>

\* generator.py:99
ExitingMsg ==
    <<"E", "x", "i", "t", "i", "n", "g", ".", ".", ".">>

\* generator.py:103
InvalidChoiceMsg ==
    <<"I", "n", "v", "a", "l", "i", "d", " ", "c", "h", "o", "i", "c", "e", ".", " ",
      "P", "l", "e", "a", "s", "e", " ", "t", "r", "y", " ", "a", "g", "a", "i", "n",
      ".">>

\* generator.py:148
ErrUrlRequired ==
    <<"E", "r", "r", "o", "r", ":", " ", "-", "-", "u", "r", "l", " ", "i", "s", " ",
      "r", "e", "q", "u", "i", "r", "e", "d", " ", "f", "o", "r", " ", "w", "e", "b",
      "s", "i", "t", "e", " ", "Q", "R", " ", "c", "o", "d", "e", "s">>

\* generator.py:154
ErrContactRequired ==
    <<"E", "r", "r", "o", "r", ":", " ", "-", "-", "n", "a", "m", "e", ",", " ", "-",
      "-", "p", "h", "o", "n", "e", ",", " ", "a", "n", "d", " ", "-", "-", "e", "m",
      "a", "i", "l", " ", "a", "r", "e", " ", "r", "e", "q", "u", "i", "r", "e", "d",
      " ", "f", "o", "r", " ", "c", "o", "n", "t", "a", "c", "t", " ", "Q", "R", " ",
      "c", "o", "d", "e", "s">>

\* generator.py:81, 114, 146, 169  "website"
TypeWebsite ==
    <<"w", "e", "b", "s", "i", "t", "e">>

\* generator.py:91, 114, 152, 172  "contact"
TypeContact ==
    <<"c", "o", "n", "t", "a", "c", "t">>

MenuLines == <<MenuTitle, MenuChoose, MenuItem1, MenuItem2, MenuItem3>>

----------------------------------------------------------------------------
(* generate_contact_vcard: string concatenation, as the code does it *)

\* `if url is not None:` in place of `if url:`
generate_contact_vcard_url_not_none(name, phone, email, url) ==
    LET vcard == VcardHead \o name \o VcardTel \o phone \o VcardEmail \o email
        with_url == IF url /= NoneVal THEN vcard \o VcardUrl \o url ELSE vcard
    IN  with_url \o VcardEnd

\* a closing "\nEND:VCARD\n" in place of "\nEND:VCARD"
generate_contact_vcard_trailing_newline(name, phone, email, url) ==
    LET vcard == VcardHead \o name \o VcardTel \o phone \o VcardEmail \o email
        with_url == IF Truthy(url) THEN vcard \o VcardUrl \o url ELSE vcard
    IN  with_url \o VcardEnd \o <<"\n">>

generate_contact_vcard(name, phone, email, url) ==
    LET vcard == VcardHead \o name \o VcardTel \o phone \o VcardEmail \o email
        with_url == IF Truthy(url) THEN vcard \o VcardUrl \o url ELSE vcard
    IN  with_url \o VcardEnd

----------------------------------------------------------------------------
(* generate_qr_code's default path *)

Digits == <<"0", "1", "2", "3", "4", "5", "6", "7", "8", "9">>

\* a %Y, %m, %d, %H, %M or %S field: decimal, zero-padded to its width
RECURSIVE Pad(_, _)
Pad(n, width) ==
    IF width = 0 THEN <<>>
    ELSE Pad(n \div 10, width - 1) \o <<Digits[(n % 10) + 1]>>

\* datetime.strftime("%Y%m%d_%H%M%S")
strftime(t) ==
    Pad(t.year, 4) \o Pad(t.month, 2) \o Pad(t.day, 2) \o <<"_">>
        \o Pad(t.hour, 2) \o Pad(t.minute, 2) \o Pad(t.second, 2)

AutoPath(t) == AutoPrefix \o strftime(t) \o AutoSuffix

\* the image qrcode makes of a payload: an opaque value that determines the payload
QrImage(data) == <<"PNG">> \o data

----------------------------------------------------------------------------
(* Inputs *)

\* what datetime.now() may return
Clocks ==
    { [year |-> 2024, month |-> 1, day |-> 5, hour |-> 9, minute |-> 3, second |-> 7],
      [year |-> 2025, month |-> 12, day |-> 31, hour |-> 23, minute |-> 59,
       second |-> 59] }

\* the value of a string flag: absent, empty, or a text
ArgValues == {NoneVal, <<>>, <<"a">>}
WebsiteValues == {NoneVal, <<>>, <<"w">>}
OutputValues == {NoneVal, <<>>, <<"o", ".", "p", "n", "g">>}

NoArgs ==
    [type |-> NoneVal, url |-> NoneVal, name |-> NoneVal, phone |-> NoneVal,
     email |-> NoneVal, website |-> NoneVal, output |-> NoneVal]

\* parser.parse_args(): --type is absent, website or contact; a flag the selected
\* branch of main never reads is left absent
ArgsSet ==
    { [NoArgs EXCEPT !.output = o] : o \in OutputValues }
    \cup { [NoArgs EXCEPT !.type = TypeWebsite, !.url = u, !.output = o] :
             u \in ArgValues, o \in OutputValues }
    \cup { [NoArgs EXCEPT !.type = TypeContact, !.name = n, !.phone = p, !.email = e,
                          !.website = w, !.output = o] :
             n \in ArgValues, p \in ArgValues, e \in ArgValues,
             w \in WebsiteValues, o \in OutputValues }

\* lines typed at the menu prompt
ChoiceLines ==
    { <<"1">>, <<" ", "1">>, <<"2">>, <<"2", " ">>, <<"3">>, <<" ", "3", " ">>,
      <<>>, <<"4">>, <<"1", "2">>, <<"x">> }

\* lines typed at a field prompt (input() returns a line without its newline)
TypedLines == { <<>>, <<" ">>, <<"a">>, <<" ", "a", " ">> }

\* fields handed to generate_contact_vcard directly
Pieces == { <<"a">>, <<":">>, <<"\n", "U", "R", "L", ":">> }

RECURSIVE FieldsOf(_)
FieldsOf(n) ==
    IF n = 0 THEN {<<>>}
    ELSE LET S == FieldsOf(n - 1) IN S \cup { s \o p : s \in S, p \in Pieces }

Fields == FieldsOf(MaxPieces)

----------------------------------------------------------------------------
(* Initial states *)

NoneDict == [none |-> TRUE]
NoTyped == [choice |-> <<>>, fields |-> <<>>]
NoFrame == [data |-> NoneVal, output_path |-> NoneVal, img |-> NoneVal]
NoUnit ==
    [name |-> NoneVal, phone |-> NoneVal, email |-> NoneVal, url |-> NoneVal,
     result |-> NoneVal]

Idle ==
    /\ depth = 0
    /\ typed = NoTyped
    /\ ret = NoneDict
    /\ user_data = NoneDict
    /\ contact_vcard = NoneVal
    /\ calls = <<>>
    /\ gq = NoFrame
    /\ clock = <<>>
    /\ out = <<>>
    /\ written = <<>>
    /\ events = <<>>
    /\ exit_status = <<>>

\* the process has parsed its arguments and is at main's `if args.type:`
Init ==
    /\ args \in ArgsSet
    /\ pc = "main"
    /\ Idle
    /\ unit = NoUnit

----------------------------------------------------------------------------
(* main, command-line path *)

\* the process ends: a normal return of main is status 0, an uncaught exception 1
End(how, status) ==
    /\ pc' = how
    /\ exit_status' = <<status>>

\* main calls generate_qr_code(data, output_path)
CallGenerateQrCode(data, output_path) ==
    /\ calls' = Append(calls, [data |-> data, output_path |-> output_path])
    /\ gq' = [data |-> data, output_path |-> output_path, img |-> NoneVal]
    /\ pc' = "gq_resolve"
    /\ UNCHANGED exit_status

\* `not args.url`
WebsiteFieldsMissing(a) == ~Truthy(a.url)

\* `not any([...])` in place of `not all([...])`
ContactFieldsMissing_not_any(a) ==
    ~(Truthy(a.name) \/ Truthy(a.phone) \/ Truthy(a.email))

\* `not all([args.name, args.phone, args.email])`
ContactFieldsMissing(a) == ~(Truthy(a.name) /\ Truthy(a.phone) /\ Truthy(a.email))

\* url=args.url in place of url=args.website
CliContactVcard_url_flag(a) == generate_contact_vcard(a.name, a.phone, a.email, a.url)

CliContactVcard(a) == generate_contact_vcard(a.name, a.phone, a.email, a.website)

\* the flag handed on as it is, with no default
CliContactOutputPath_no_default(output) == output

\* `args.output if args.output else "contact_qrcode.png"`
CliContactOutputPath(output) == IF Truthy(output) THEN output ELSE ContactDefaultPath

MainCliWebsite ==
    /\ pc = "main"
    /\ Truthy(args.type)
    /\ args.type = TypeWebsite
    /\ IF WebsiteFieldsMissing(args)
       THEN /\ out' = Append(out, ErrUrlRequired)
            /\ End("returned", 0)
            /\ UNCHANGED <<calls, gq>>
       ELSE /\ CallGenerateQrCode(args.url, args.output)
            /\ UNCHANGED out
    /\ UNCHANGED <<args, depth, typed, ret, user_data, contact_vcard, clock, written,
                   events, unit>>

MainCliContact ==
    /\ pc = "main"
    /\ Truthy(args.type)
    /\ args.type = TypeContact
    /\ IF ContactFieldsMissing(args)
       THEN /\ out' = Append(out, ErrContactRequired)
            /\ End("returned", 0)
            /\ UNCHANGED <<calls, gq, contact_vcard>>
       ELSE /\ contact_vcard' = CliContactVcard(args)
            /\ CallGenerateQrCode(contact_vcard', CliContactOutputPath(args.output))
            /\ UNCHANGED out
    /\ UNCHANGED <<args, depth, typed, ret, user_data, clock, written, events, unit>>

----------------------------------------------------------------------------
(* get_user_input_interactive *)

\* main's else branch calls the prompt: the menu is printed and the choice awaited
InteractiveStart ==
    /\ pc = "main"
    /\ ~Truthy(args.type)
    /\ depth' = 1
    /\ out' = out \o MenuLines \o <<PromptChoice>>
    /\ pc' = "choice"
    /\ UNCHANGED <<args, typed, ret, user_data, contact_vcard, calls, gq, clock,
                   written, events, exit_status, unit>>

\* `url if url else None`
OptionalUrl(url) == IF Truthy(url) THEN url ELSE NoneVal

\* choice "1": the url is read and this frame returns the website record
ChooseWebsite ==
    /\ pc = "choice"
    /\ \E c \in ChoiceLines, u \in TypedLines :
          /\ Strip(c) = <<"1">>
          /\ typed' = [choice |-> c, fields |-> <<u>>]
          /\ ret' = [type |-> TypeWebsite, url |-> Strip(u)]
    /\ out' = out \o <<PromptUrl>>
    /\ depth' = depth - 1
    /\ pc' = "return"
    /\ UNCHANGED <<args, user_data, contact_vcard, calls, gq, clock, written, events,
                   exit_status, unit>>

\* choice "2": the four fields are read and this frame returns the contact record
ChooseContact ==
    /\ pc = "choice"
    /\ \E c \in ChoiceLines, n \in TypedLines, p \in TypedLines, e \in TypedLines,
          u \in TypedLines :
          /\ Strip(c) = <<"2">>
          /\ typed' = [choice |-> c, fields |-> <<n, p, e, u>>]
          /\ ret' = [type |-> TypeContact, name |-> Strip(n), phone |-> Strip(p),
                     email |-> Strip(e), url |-> OptionalUrl(Strip(u))]
    /\ out' = out \o <<ContactHeader, PromptName, PromptPhone, PromptEmail,
                       PromptWebsite>>
    /\ depth' = depth - 1
    /\ pc' = "return"
    /\ UNCHANGED <<args, user_data, contact_vcard, calls, gq, clock, written, events,
                   exit_status, unit>>

\* exit(1) in place of exit(0)
ChooseExit_status_1 ==
    /\ pc = "choice"
    /\ \E c \in ChoiceLines :
          /\ Strip(c) = <<"3">>
          /\ typed' = [choice |-> c, fields |-> <<>>]
    /\ out' = Append(out, ExitingMsg)
    /\ depth' = 0
    /\ End("exited", 1)
    /\ UNCHANGED <<args, ret, user_data, contact_vcard, calls, gq, clock, written,
                   events, unit>>

\* choice "3": exit(0) raises SystemExit, which no frame catches
ChooseExit ==
    /\ pc = "choice"
    /\ \E c \in ChoiceLines :
          /\ Strip(c) = <<"3">>
          /\ typed' = [choice |-> c, fields |-> <<>>]
    /\ out' = Append(out, ExitingMsg)
    /\ depth' = 0
    /\ End("exited", 0)
    /\ UNCHANGED <<args, ret, user_data, contact_vcard, calls, gq, clock, written,
                   events, unit>>

\* any other choice: the message, and a recursive call that prints the menu again
ChooseInvalid ==
    /\ pc = "choice"
    /\ depth <= MaxDepth
    /\ \E c \in ChoiceLines : Strip(c) \notin {<<"1">>, <<"2">>, <<"3">>}
    /\ out' = out \o <<InvalidChoiceMsg>> \o MenuLines \o <<PromptChoice>>
    /\ depth' = depth + 1
    /\ UNCHANGED <<args, pc, typed, ret, user_data, contact_vcard, calls, gq, clock,
                   written, events, exit_status, unit>>

\* the recursive call's value is dropped: `get_user_input_interactive()` with no return
RecursiveReturn_dropped(inner) == NoneDict

\* `return get_user_input_interactive()`
RecursiveReturn(inner) == inner

\* a frame that re-prompted returns what its recursive call returned
ReturnFrame ==
    /\ pc = "return"
    /\ depth > 0
    /\ ret' = RecursiveReturn(ret)
    /\ depth' = depth - 1
    /\ UNCHANGED <<args, pc, typed, user_data, contact_vcard, calls, gq, clock, out,
                   written, events, exit_status, unit>>

----------------------------------------------------------------------------
(* main, interactive path *)

\* `user_data.get("output")`
InteractiveWebsiteOutputPath(d) == DictGet(d, "output", NoneVal)

\* `user_data.get("output", "contact_qrcode.png")`
InteractiveContactOutputPath(d) == DictGet(d, "output", ContactDefaultPath)

InteractiveContactVcard(d) == generate_contact_vcard(d.name, d.phone, d.email, d.url)

\* the outermost frame has returned: main binds user_data and dispatches on its type
\* (None["type"] raises TypeError; a type that is neither falls through to the end)
MainInteractive ==
    /\ pc = "return"
    /\ depth = 0
    /\ user_data' = ret
    /\ IF "type" \notin DOMAIN ret
       THEN /\ End("raised", 1)
            /\ UNCHANGED <<calls, gq, contact_vcard>>
       ELSE IF ret.type = TypeWebsite
       THEN /\ CallGenerateQrCode(ret.url, InteractiveWebsiteOutputPath(ret))
            /\ UNCHANGED contact_vcard
       ELSE IF ret.type = TypeContact
       THEN /\ contact_vcard' = InteractiveContactVcard(ret)
            /\ CallGenerateQrCode(contact_vcard', InteractiveContactOutputPath(ret))
       ELSE /\ End("returned", 0)
            /\ UNCHANGED <<calls, gq, contact_vcard>>
    /\ UNCHANGED <<args, depth, typed, ret, clock, out, written, events, unit>>

----------------------------------------------------------------------------
(* generate_qr_code *)

Event(op, ok, path) == [op |-> op, ok |-> ok, path |-> path]

\* `if output_path is None:` the default is made from the clock
GqResolvePath ==
    /\ pc = "gq_resolve"
    /\ IF gq.output_path = NoneVal
       THEN \E t \in Clocks :
               /\ clock' = <<t>>
               /\ gq' = [gq EXCEPT !.output_path = AutoPath(t)]
       ELSE UNCHANGED <<clock, gq>>
    /\ pc' = "gq_encode"
    /\ UNCHANGED <<args, depth, typed, ret, user_data, contact_vcard, calls, out,
                   written, events, exit_status, unit>>

\* qrcode builds the image
GqEncode ==
    /\ pc = "gq_encode"
    /\ gq' = [gq EXCEPT !.img = QrImage(gq.data)]
    /\ events' = Append(events, Event("encode", TRUE, NoneVal))
    /\ pc' = "gq_save"
    /\ UNCHANGED <<args, depth, typed, ret, user_data, contact_vcard, calls, clock,
                   out, written, exit_status, unit>>

\* qrcode cannot represent the payload: the exception leaves generate_qr_code and main
GqEncodeRaises ==
    /\ pc = "gq_encode"
    /\ events' = Append(events, Event("encode", FALSE, NoneVal))
    /\ End("raised", 1)
    /\ UNCHANGED <<args, depth, typed, ret, user_data, contact_vcard, calls, gq, clock,
                   out, written, unit>>

\* img.save(output_path) writes the file; no file can be opened under the empty name
GqSave ==
    /\ pc = "gq_save"
    /\ gq.output_path /= <<>>
    /\ written' = Append(written, [path |-> gq.output_path, image |-> gq.img])
    /\ events' = Append(events, Event("save", TRUE, gq.output_path))
    /\ pc' = "gq_report"
    /\ UNCHANGED <<args, depth, typed, ret, user_data, contact_vcard, calls, gq, clock,
                   out, exit_status, unit>>

\* the failed write is swallowed and the notice printed all the same
GqSaveRaises_reports ==
    /\ pc = "gq_save"
    /\ events' = Append(events, Event("save", FALSE, gq.output_path))
    /\ pc' = "gq_report"
    /\ UNCHANGED <<args, depth, typed, ret, user_data, contact_vcard, calls, gq, clock,
                   out, written, exit_status, unit>>

\* the path cannot be written: the exception leaves generate_qr_code and main
GqSaveRaises ==
    /\ pc = "gq_save"
    /\ events' = Append(events, Event("save", FALSE, gq.output_path))
    /\ End("raised", 1)
    /\ UNCHANGED <<args, depth, typed, ret, user_data, contact_vcard, calls, gq, clock,
                   out, written, unit>>

\* print(f"QR code saved to {output_path}"), then generate_qr_code and main return
GqReport ==
    /\ pc = "gq_report"
    /\ out' = Append(out, SavedPrefix \o gq.output_path)
    /\ events' = Append(events, Event("report", TRUE, gq.output_path))
    /\ End("returned", 0)
    /\ UNCHANGED <<args, depth, typed, ret, user_data, contact_vcard, calls, gq, clock,
                   written, unit>>

----------------------------------------------------------------------------
(* The program *)

Next ==
    \/ MainCliWebsite
    \/ MainCliContact
    \/ InteractiveStart
    \/ ChooseWebsite
    \/ ChooseContact
    \/ ChooseExit
    \/ ChooseInvalid
    \/ ReturnFrame
    \/ MainInteractive
    \/ GqResolvePath
    \/ GqEncode
    \/ GqEncodeRaises
    \/ GqSave
    \/ GqSaveRaises
    \/ GqReport

Spec == Init /\ [][Next]_vars

----------------------------------------------------------------------------
(* generate_contact_vcard called directly, as test_generator.py calls it *)

InitVcard ==
    /\ args = NoArgs
    /\ pc = "unit"
    /\ Idle
    /\ unit \in { [name |-> n, phone |-> p, email |-> e, url |-> u, result |-> NoneVal] :
                    n \in Fields, p \in Fields, e \in Fields,
                    u \in Fields \cup {NoneVal} }

CallVcard ==
    /\ pc = "unit"
    /\ unit.result = NoneVal
    /\ unit' = [unit EXCEPT
                  !.result = generate_contact_vcard(unit.name, unit.phone, unit.email,
                                                    unit.url)]
    /\ UNCHANGED mainVars

NextVcard == CallVcard

SpecVcard == InitVcard /\ [][NextVcard]_vars

----------------------------------------------------------------------------
(* What the properties are stated with *)

LineBegin == <<"B", "E", "G", "I", "N", ":", "V", "C", "A", "R", "D">>
LineVersion == <<"V", "E", "R", "S", "I", "O", "N", ":", "3", ".", "0">>
LineEnd == <<"E", "N", "D", ":", "V", "C", "A", "R", "D">>
TagFN == <<"F", "N", ":">>
TagTEL == <<"T", "E", "L", ":">>
TagEMAIL == <<"E", "M", "A", "I", "L", ":">>
TagURL == <<"U", "R", "L", ":">>

Range(f) == { f[i] : i \in DOMAIN f }

Absent(x) == x = NoneVal \/ Len(x) = 0

StartsWith(s, prefix) ==
    /\ Len(s) >= Len(prefix)
    /\ SubSeq(s, 1, Len(prefix)) = prefix

\* the lines joined by single newlines, none after the last
RECURSIVE JoinLines(_)
JoinLines(ls) ==
    IF Len(ls) = 0 THEN <<>>
    ELSE IF Len(ls) = 1 THEN ls[1]
    ELSE ls[1] \o <<"\n">> \o JoinLines(Tail(ls))

\* the lines of a text: what lies between its newlines
RECURSIVE SplitLines(_)
SplitLines(s) ==
    LET breaks == { i \in DOMAIN s : s[i] = "\n" }
    IN  IF breaks = {} THEN <<s>>
        ELSE LET i == CHOOSE b \in breaks : \A c \in breaks : b <= c
             IN  <<SubSeq(s, 1, i - 1)>> \o SplitLines(SubSeq(s, i + 1, Len(s)))

\* the record of section 4.1, line by line
RecordLines(name, phone, email, url) ==
    <<LineBegin, LineVersion, TagFN \o name, TagTEL \o phone, TagEMAIL \o email>>
        \o (IF Absent(url) THEN <<>> ELSE <<TagURL \o url>>)
        \o <<LineEnd>>

Formatted == pc = "unit" /\ unit.result /= NoneVal

\* C1: for every name, phone and email the record generate_contact_vcard returns is
\* exactly the lines BEGIN:VCARD, VERSION:3.0, FN:<name>, TEL:<phone>, EMAIL:<email>,
\* URL:<url> when a non-empty url was given, END:VCARD, in that order, joined by
\* single newlines with none at the end and each field verbatim; its first line is
\* BEGIN:VCARD and its last line is END:VCARD.
C1_VcardStructure ==
    Formatted =>
        LET lines == SplitLines(unit.result)
        IN  /\ unit.result
                 = JoinLines(RecordLines(unit.name, unit.phone, unit.email, unit.url))
            /\ lines[1] = LineBegin
            /\ lines[Len(lines)] = LineEnd
            /\ unit.result[Len(unit.result)] /= "\n"

\* C1's case: a record was formatted from a name that holds a reserved character,
\* with a url
C1_Witness ==
    /\ Formatted
    /\ unit.name = <<":">>
    /\ unit.url = <<"a">>

NoNewline(x) == x = NoneVal \/ "\n" \notin Range(x)

\* C2: for fields that hold no newline, the record has a line starting with URL: if
\* and only if a non-empty url was given: none when url is None or empty, and
\* otherwise exactly one, URL:<url>, right after the EMAIL: line and right before
\* END:VCARD.
C2_UrlLineIffUrl ==
    ( /\ Formatted
      /\ NoNewline(unit.name) /\ NoNewline(unit.phone)
      /\ NoNewline(unit.email) /\ NoNewline(unit.url) )
    =>
        LET lines == SplitLines(unit.result)
            urls == { i \in DOMAIN lines : StartsWith(lines[i], TagURL) }
            n == Len(lines)
        IN  IF Absent(unit.url)
            THEN urls = {}
            ELSE /\ urls = {n - 1}
                 /\ lines[n - 1] = TagURL \o unit.url
                 /\ lines[n - 2] = TagEMAIL \o unit.email
                 /\ lines[n] = LineEnd

\* C2's case: a record was formatted with the empty string as its url
C2_Witness ==
    /\ Formatted
    /\ unit.url = <<>>
    /\ unit.name = <<"a">>

----------------------------------------------------------------------------
(* Properties of main *)

CommandLine == args.type /= NoneVal

\* the flow this invocation selected, None while none is
SelectedFlow ==
    IF CommandLine THEN args.type
    ELSE IF "type" \in DOMAIN ret THEN ret.type
    ELSE NoneVal

\* the fields the selection source supplied for the selected flow
SuppliedUrl == IF CommandLine THEN args.url ELSE ret.url
SuppliedName == IF CommandLine THEN args.name ELSE ret.name
SuppliedPhone == IF CommandLine THEN args.phone ELSE ret.phone
SuppliedEmail == IF CommandLine THEN args.email ELSE ret.email
SuppliedWebsite == IF CommandLine THEN args.website ELSE ret.url

RequiredMissing ==
    \/ SelectedFlow = TypeWebsite /\ Absent(SuppliedUrl)
    \/ /\ SelectedFlow = TypeContact
       /\ (Absent(SuppliedName) \/ Absent(SuppliedPhone) \/ Absent(SuppliedEmail))

Ended == exit_status /= <<>>

NothingEncoded == calls = <<>> /\ events = <<>> /\ written = <<>>

\* C3: whichever selection source is used, when the required fields of the selected
\* flow are not all present and non-empty, generate_qr_code is never called and no
\* file is written, and the invocation ends with a message.
C3_MissingFieldsNeverEncode ==
    RequiredMissing =>
        /\ NothingEncoded
        /\ Ended => out /= <<>> /\ out[Len(out)] \in {ErrUrlRequired, ErrContactRequired}

\* C4: on the command-line path, when --url is missing or empty in the website flow,
\* or one of --name, --phone, --email is in the contact flow, main prints the error
\* message and returns normally with status 0: no record is formatted,
\* generate_qr_code is not called and no file is written.
C4_CliMissingFields ==
    (CommandLine /\ RequiredMissing /\ pc /= "main") =>
        /\ pc = "returned"
        /\ exit_status = <<0>>
        /\ out = <<IF args.type = TypeWebsite THEN ErrUrlRequired
                   ELSE ErrContactRequired>>
        /\ contact_vcard = NoneVal
        /\ NothingEncoded

\* C4's case: the contact flow was run from the command line with an empty --email
C4_Witness ==
    /\ pc = "returned"
    /\ args.type = TypeContact
    /\ args.name = <<"a">> /\ args.phone = <<"a">>
    /\ args.email = <<>>

\* C5: a file is written to contact_qrcode.png (contact flow) or to
\* qrcode_<YYYYMMDD_HHMMSS>.png of the call's time (website flow) when no output
\* path was supplied, in both modes, and to exactly the --output path when a
\* non-empty one was supplied, in both flows.
C5_OutputPath ==
    \A i \in DOMAIN written :
        LET path == written[i].path
        IN  /\ (args.output = NoneVal /\ SelectedFlow = TypeContact)
                  => path = ContactDefaultPath
            /\ (args.output = NoneVal /\ SelectedFlow = TypeWebsite)
                  => clock /= <<>> /\ path = AutoPath(clock[1])
            /\ ~Absent(args.output) => path = args.output

\* C6 as claimed: every call main makes to generate_qr_code passes an output path
\* that is present and non-empty.
C6_CallPathPresent ==
    \A i \in DOMAIN calls : ~Absent(calls[i].output_path)

\* generate_qr_code is past its `if output_path is None:`
PathResolved == pc \in {"gq_encode", "gq_save", "gq_report"} \/ events /= <<>>

\* C6 as amended: in the contact flow every call passes a present, non-empty path;
\* in the website flow main resolves nothing, passing --output as it is on the
\* command line and no path in interactive mode, and generate_qr_code replaces an
\* absent path, and only an absent one, by the timestamp name.
C6_CallPathAmended ==
    \A i \in DOMAIN calls :
        LET passed == calls[i].output_path
        IN  /\ SelectedFlow = TypeContact => ~Absent(passed)
            /\ SelectedFlow = TypeWebsite
                  => passed = (IF CommandLine THEN args.output ELSE NoneVal)
            /\ PathResolved =>
                  IF passed = NoneVal
                  THEN clock /= <<>> /\ gq.output_path = AutoPath(clock[1])
                  ELSE gq.output_path = passed

\* C6's case: main called generate_qr_code with no path, which made the default
C6_Witness ==
    /\ pc = "gq_save"
    /\ calls /= <<>>
    /\ calls[1].output_path = NoneVal
    /\ SelectedFlow = TypeWebsite

\* C7: main selects at most one flow and calls generate_qr_code at most once; the
\* payload is the url it was supplied, unchanged, in the website flow, and in the
\* contact flow the record of the name, phone, email and optional website url it was
\* supplied (args on the command line, user_data in interactive mode).
C7_OneCallOnePayload ==
    /\ Len(calls) <= 1
    /\ contact_vcard /= NoneVal => SelectedFlow = TypeContact
    /\ calls /= <<>> =>
          /\ SelectedFlow \in {TypeWebsite, TypeContact}
          /\ CommandLine \/ user_data = ret
          /\ SelectedFlow = TypeWebsite => calls[1].data = SuppliedUrl
          /\ SelectedFlow = TypeContact =>
                /\ calls[1].data = contact_vcard
                /\ calls[1].data
                     = JoinLines(RecordLines(SuppliedName, SuppliedPhone,
                                             SuppliedEmail, SuppliedWebsite))

\* C7's case: the contact flow, given a website url, has called generate_qr_code
C7_Witness ==
    /\ Len(calls) = 1
    /\ args.type = TypeContact
    /\ args.website = <<"w">>

----------------------------------------------------------------------------
(* Properties of the interactive menu *)

\* what the terminal shows when the menu is up for the n-th time
RECURSIVE MenuShown(_)
MenuShown(n) ==
    IF n = 1 THEN MenuLines \o <<PromptChoice>>
    ELSE MenuShown(n - 1) \o <<InvalidChoiceMsg>> \o MenuLines \o <<PromptChoice>>

Reprompted == InvalidChoiceMsg \in Range(out)

\* the record a choice of 1 or 2 and the lines typed after it stand for
RecordTyped(t) ==
    IF Strip(t.choice) = <<"1">>
    THEN [type |-> TypeWebsite, url |-> Strip(t.fields[1])]
    ELSE [type |-> TypeContact, name |-> Strip(t.fields[1]),
          phone |-> Strip(t.fields[2]), email |-> Strip(t.fields[3]),
          url |-> IF Absent(Strip(t.fields[4])) THEN NoneVal ELSE Strip(t.fields[4])]

\* get_user_input_interactive has returned to main
PromptReturned ==
    /\ ~CommandLine
    /\ pc \notin {"main", "choice", "exited"}
    /\ pc = "return" => depth = 0

C9_ExitChoice ==
    /\ Strip(typed.choice) = <<"3">> <=> pc = "exited"
    /\ pc = "exited" =>
          /\ exit_status = <<0>>
          /\ NothingEncoded
          /\ contact_vcard = NoneVal
          /\ out[Len(out)] = ExitingMsg

\* C9's case: 3 was chosen after an invalid choice
C9_Witness ==
    /\ pc = "exited"
    /\ Reprompted

----------------------------------------------------------------------------
(* Properties of generate_qr_code *)

Notices == { i \in DOMAIN out : StartsWith(out[i], SavedPrefix) }

\* C10: generate_qr_code makes one attempt, in the order encode, write, report: the
\* notice "QR code saved to <path>" is printed only after the image was written to
\* that path, and a failed encoding or write ends the call with the exception, with
\* no further attempt and no notice.
C10_SingleAttempt ==
    /\ Len(events) <= 3
    /\ \A i \in DOMAIN events :
          /\ events[i].op = <<"encode", "save", "report">>[i]
          /\ i < Len(events) => events[i].ok
    /\ (events /= <<>> /\ ~events[Len(events)].ok) =>
          /\ pc = "raised"
          /\ exit_status = <<1>>
          /\ Notices = {}
          /\ written = <<>>
    /\ Len(written) <= 1
    /\ written /= <<>> =>
          /\ Len(events) >= 2
          /\ written[1] = [path |-> gq.output_path, image |-> QrImage(calls[1].data)]
    /\ Cardinality(Notices) <= 1
    /\ \A i \in Notices :
          /\ written /= <<>>
          /\ out[i] = SavedPrefix \o written[1].path
          /\ i = Len(out)

\* C10's case: the image was encoded, written and reported
C10_Witness ==
    /\ pc = "returned"
    /\ Len(events) = 3
    /\ written /= <<>>
    /\ Notices /= {}

====
